---- MODULE Spec2Model ----
(***************************************************************************)
(* LatticeBuilderLine (latticeconstructor/core.py): the definition store,   *)
(* the lattice of element references, the derived table and the rollback   *)
(* history, with one action per public method.                             *)
(*                                                                         *)
(* Representation.                                                         *)
(*   - A Python dict is an insertion-ordered sequence of <<key, value>>    *)
(*     pairs; an element definition is a record whose DOMAIN is the set of *)
(*     keys the dict holds (a key that is absent is absent from DOMAIN).   *)
(*   - Lengths and positions are integers in units of 0.05 mm, and every   *)
(*     length is even, so that L / 2 is exact.                             *)
(*   - A pandas DataFrame is a sequence of rows, each a record over the    *)
(*     union of the columns; a missing cell is NULL (numeric column) or    *)
(*     "NaN" (text column).  `table = None` is built = FALSE.              *)
(***************************************************************************)
EXTENDS Integers, Sequences, FiniteSets, TLC

VARIABLES
    definitions,   \* self.definitions
    lattice,       \* self.lattice
    table,         \* self.table
    positions,     \* self.positions
    history,       \* self.history (LifoQueue), top = last element
    lastOp,        \* the method called last
    err,           \* the exception that call raised, "none" when it returned
    msg,           \* what that call printed: "none", "not_updated", "no_previous"
    reported,      \* the set of names that call printed
    opened,        \* whether that call reached open(filename)
    ret,           \* what that call returned
    aliased,       \* for each snapshot of the history, the names whose attribute
                   \* dict in the snapshot is the object the live definitions hold
    prior,         \* observer: for each call not yet undone, the state it started from
    undone         \* observer: the undos that restored a state since the last call

vars == <<definitions, lattice, table, positions, history,
          lastOp, err, msg, reported, opened, ret, aliased, prior, undone>>

(***************************************************************************)
(* Bounds of the model.                                                    *)
(***************************************************************************)
MaxLat == 2
MaxHist == 3
MaxSlots == 6

\* pandas NaN / Python None in a numeric column
NULL == -1

StrCols == {"family", "name", "filename", "mode"}

NaNOf(c) == IF c \in StrCols THEN "NaN" ELSE NULL

(***************************************************************************)
(* Python dict and list helpers.                                           *)
(***************************************************************************)
Keys(d) == {d[i][1] : i \in 1..Len(d)}

IndexOfKey(d, k) == CHOOSE i \in 1..Len(d) : d[i][1] = k

Get(d, k) == d[IndexOfKey(d, k)][2]

\* v.get(key, default)
DictGet(v, key, default) == IF key \in DOMAIN v THEN v[key] ELSE default

\* {**v, **{key: val}}
With(v, key, val) ==
    [x \in (DOMAIN v) \cup {key} |-> IF x = key THEN val ELSE v[x]]

\* {**a, **b}: the keys of a keep their place (values from b when b has the
\* key), the new keys of b follow in b's order
Merge(a, b) ==
    LET old == [i \in 1..Len(a) |->
                   IF a[i][1] \in Keys(b) THEN <<a[i][1], Get(b, a[i][1])>>
                                          ELSE a[i]]
        new == SelectSeq(b, LAMBDA e : e[1] \notin Keys(a))
    IN  old \o new

Max2(a, b) == IF a > b THEN a ELSE b
Min2(a, b) == IF a < b THEN a ELSE b

\* a slice bound as Python clamps it: negative counts from the end
Clamp(i, n) == IF i < 0 THEN Max2(0, n + i) ELSE Min2(i, n)

\* s[lo:hi] with 0-based Python semantics
PySlice(s, lo, hi) ==
    LET a == Clamp(lo, Len(s))
        b == Clamp(hi, Len(s))
    IN  IF b <= a THEN <<>> ELSE SubSeq(s, a + 1, b)

\* s[:hi]
SliceTo(s, hi) == PySlice(s, 0, hi)

\* s[lo:]
SliceFrom(s, lo) == PySlice(s, lo, Len(s))

\* `if not isinstance(x, list): x = [x]`
\* an argument is [isList |-> TRUE, val |-> <<names>>], or a bare name n,
\* held as [isList |-> FALSE, val |-> <<n>>]
AsList(x) == IF x.isList THEN x.val ELSE <<x.val[1]>>

Snapshot == <<definitions, lattice, table>>

\* the value of a call that returns None (or raises), and of one that returns v
NoReturn == [isNone |-> TRUE, val |-> <<>>]
Returned(v) == [isNone |-> FALSE, val |-> v]

(***************************************************************************)
(* _CONVERSION_DICT.get(f, f)                                              *)
(***************************************************************************)
\* the table with the entry of WATCH left out
ConvWithoutWatch(f) ==
    CASE f = "KQUAD"  -> "QUADRUPOLE"
      [] f = "KSEXT"  -> "SEXTUPOLE"
      [] f = "DRIF"   -> "DRIFT"
      [] f = "RFCA"   -> "RFCAVITY"
      [] f = "CSBEND" -> "SBEND"
      [] f = "MONI"   -> "MONITOR"
      [] f = "EVKICK" -> "VKICKER"
      [] f = "EHKICK" -> "HKICKER"
      [] f = "MARK"   -> "MARKER"
      [] OTHER        -> f

Conv(f) ==
    CASE f = "KQUAD"  -> "QUADRUPOLE"
      [] f = "KSEXT"  -> "SEXTUPOLE"
      [] f = "DRIF"   -> "DRIFT"
      [] f = "RFCA"   -> "RFCAVITY"
      [] f = "CSBEND" -> "SBEND"
      [] f = "MONI"   -> "MONITOR"
      [] f = "WATCH"  -> "MARKER"
      [] f = "EVKICK" -> "VKICKER"
      [] f = "EHKICK" -> "HKICKER"
      [] f = "MARK"   -> "MARKER"
      [] OTHER        -> f

(***************************************************************************)
(* _update_table                                                           *)
(***************************************************************************)
\* Series.cumsum() with skipna: the running sum skips null cells
RunSum(col, i) ==
    LET F[k \in 0..Len(col)] ==
            IF k = 0 THEN 0
            ELSE F[k - 1] + (IF col[k] = NULL THEN 0 ELSE col[k])
    IN  F[i]

\* the position of the end of each element: the half length is not taken off
CumAtEnd(col) ==
    [i \in 1..Len(col) |-> IF col[i] = NULL THEN NULL ELSE RunSum(col, i)]

\* ntable["L"].cumsum() - ntable["L"] / 2, cell by cell (null where L is null)
CumAt(col) ==
    [i \in 1..Len(col) |->
        IF col[i] = NULL THEN NULL ELSE RunSum(col, i) - (col[i] \div 2)]

\* ntable["at"] = self.positions["at"], aligned on the row index
PosAt(pos, n) ==
    [i \in 1..n |-> IF i <= Len(pos.at) THEN pos.at[i] ELSE NULL]

\* rows that keep the definition's own name
TempRowsOwnName(defs, lat) ==
    [i \in 1..Len(lat) |-> Get(defs, lat[i])]

\* temp = [{**self.definitions[k], **{"name": k}} for k in self.lattice]
TempRows(defs, lat) ==
    [i \in 1..Len(lat) |-> With(Get(defs, lat[i]), "name", lat[i])]

\* the columns of pd.DataFrame(temp): the union of the rows' keys
Columns(temp) == UNION {DOMAIN temp[i] : i \in 1..Len(temp)}

\* pd.DataFrame(temp): every row over every column, missing cells null
Frame(temp) ==
    LET cols == Columns(temp)
    IN  [i \in 1..Len(temp) |->
            [c \in cols |-> IF c \in DOMAIN temp[i] THEN temp[i][c] ELSE NaNOf(c)]]

AllDefined(defs, lat) == \A i \in 1..Len(lat) : lat[i] \in Keys(defs)

Undefined(defs, lat) == {lat[i] : i \in 1..Len(lat)} \ Keys(defs)

\* the report that names every reference of the lattice, defined or not
NotUpdatedNamingAll(defs, lat, tab) ==
    [table |-> tab, err |-> "none", msg |-> "not_updated",
     reported |-> {lat[i] : i \in 1..Len(lat)}]

\* the else branch: the table is kept and set(lattice) - definitions.keys() printed
NotUpdated(defs, lat, tab) ==
    [table |-> tab, err |-> "none", msg |-> "not_updated",
     reported |-> Undefined(defs, lat)]

\* the branch that builds the table, every reference being defined
BuiltTable(defs, lat, tab, pos) ==
    LET temp   == TempRows(defs, lat)
        ntable == Frame(temp)
        n      == Len(lat)
    IN  IF "L" \notin Columns(temp)
        THEN \* ntable["L"] on a frame without that column
             [table |-> tab, err |-> "KeyError", msg |-> "none", reported |-> {}]
        ELSE LET L0  == [i \in 1..n |-> ntable[i]["L"]]
                 at0 == IF pos.set THEN PosAt(pos, n) ELSE CumAt(L0)
                 nul == \E i \in 1..n : L0[i] = NULL
                 L1  == [i \in 1..n |-> IF L0[i] = NULL THEN 0 ELSE L0[i]]
                 at1 == IF nul THEN CumAt(L1) ELSE at0
                 rows == [i \in 1..n |->
                            With(With(ntable[i], "L", L1[i]), "at", at1[i])]
             IN  [table |-> [built |-> TRUE, rows |-> rows],
                  err |-> "none", msg |-> "none", reported |-> {}]

\* The outcome of one call of _update_table on (defs, lat, tab, pos):
\* the table afterwards, the exception raised and what was printed.
UpdateTable(defs, lat, tab, pos) ==
    IF AllDefined(defs, lat)
    THEN BuiltTable(defs, lat, tab, pos)
    ELSE NotUpdated(defs, lat, tab)

(***************************************************************************)
(* The rollback queue and the outputs of a call.                           *)
(***************************************************************************)
\* a snapshot that leaves the table out
PushWithoutTable == Append(history, <<definitions, lattice, [built |-> FALSE, rows |-> <<>>]>>)

\* self.history.put((deepcopy(definitions), deepcopy(lattice), deepcopy(table)))
PushSnapshot == Append(history, Snapshot)

\* a snapshot that keeps the attribute dicts of the live definitions
SharedByReference(defs) == Keys(defs)

\* deepcopy(self.definitions): the names whose attribute dict the copy shares
\* with defs
SharedBySnapshot(defs) == {}

\* the sharing once the snapshot of this call is on the queue
PushShared == Append(aliased, SharedBySnapshot(definitions))

\* {**self.definitions, **_def}: the names of the batch now refer to the
\* dicts of the batch, the others to the dicts they referred to before
StillShared(al, batch) == [i \in 1..Len(al) |-> al[i] \ Keys(batch)]

\* self.definitions[d]["family"] = ... assigns into the attribute dict of d:
\* every snapshot that holds this dict holds the one newdefs holds
WrittenThrough(hist, al, newdefs) ==
    [i \in 1..Len(hist) |->
        <<[j \in 1..Len(hist[i][1]) |->
              IF hist[i][1][j][1] \in al[i] \cap Keys(newdefs)
              THEN <<hist[i][1][j][1], Get(newdefs, hist[i][1][j][1])>>
              ELSE hist[i][1][j]],
          hist[i][2], hist[i][3]>>]

\* self.definitions, self.lattice, self.table = self.history.get(): a name is
\* shared with a snapshot left on the queue when the popped one and that one
\* hold the same dict for it
PopShared ==
    [i \in 1..(Len(aliased) - 1) |-> aliased[i] \cap aliased[Len(aliased)]]

\* a call that raised `e` after its snapshot: nothing else was assigned
Raise(e) ==
    /\ err' = e
    /\ msg' = "none"
    /\ reported' = {}
    /\ UNCHANGED <<definitions, lattice, table, positions>>

\* self._update_table() at the end of a call that set the lattice to newlat
\* and the definitions to newdefs
Rebuild(newdefs, newlat) ==
    \E r \in {UpdateTable(newdefs, newlat, table, positions)} :
        /\ table' = r.table
        /\ err' = r.err
        /\ msg' = r.msg
        /\ reported' = r.reported

(***************************************************************************)
(* add_def                                                                 *)
(***************************************************************************)
\* v.get("L", None) is None
NoLength(v) == DictGet(v, "L", NULL) = NULL

\* for k, v in _def.items(): _def[k]["name"] = v.get("name", k)
SetNames(batch) ==
    [i \in 1..Len(batch) |->
        <<batch[i][1], With(batch[i][2], "name", DictGet(batch[i][2], "name", batch[i][1]))>>]

\* the first entry, in dict order, whose ["family"] raises KeyError; 0 if none
FirstNoFamily(d) ==
    IF \E i \in 1..Len(d) : "family" \notin DOMAIN d[i][2]
    THEN CHOOSE i \in 1..Len(d) :
            /\ "family" \notin DOMAIN d[i][2]
            /\ \A j \in 1..(i - 1) : "family" \in DOMAIN d[j][2]
    ELSE 0

\* for d in self.definitions.keys(): ...["family"] = _CONVERSION_DICT.get(...)
\* the loop stops at the first entry without a family
ConvertFamilies(d) ==
    LET stop == FirstNoFamily(d)
    IN  [i \in 1..Len(d) |->
            IF stop = 0 \/ i < stop
            THEN <<d[i][1], With(d[i][2], "family", Conv(d[i][2]["family"]))>>
            ELSE d[i]]

\* add_def that asserts a length for every entry of the batch
add_def_every_length(batch) ==
    /\ lastOp' = "add_def"
    /\ ret' = NoReturn
    /\ opened' = FALSE
    /\ IF batch = <<>>
       THEN history' = PushSnapshot /\ aliased' = PushShared /\ Raise("IndexError")
       ELSE IF \E i \in 1..Len(batch) : NoLength(batch[i][2])
       THEN history' = PushSnapshot /\ aliased' = PushShared /\ Raise("AssertionError")
       ELSE LET merged == Merge(definitions, SetNames(batch))
                newdefs == ConvertFamilies(merged)
                held == StillShared(PushShared, batch)
            IN  /\ history' = WrittenThrough(PushSnapshot, held, newdefs)
                /\ aliased' = held
                /\ definitions' = newdefs
                /\ UNCHANGED <<lattice, positions>>
                /\ IF FirstNoFamily(merged) # 0
                   THEN /\ err' = "KeyError"
                        /\ msg' = "none"
                        /\ reported' = {}
                        /\ UNCHANGED table
                   ELSE IF table.built
                   THEN Rebuild(newdefs, lattice)
                   ELSE /\ err' = "none"
                        /\ msg' = "none"
                        /\ reported' = {}
                        /\ UNCHANGED table

add_def(batch) ==
    /\ lastOp' = "add_def"
    /\ ret' = NoReturn
    /\ opened' = FALSE
    /\ IF batch = <<>>
       THEN history' = PushSnapshot /\ aliased' = PushShared /\ Raise("IndexError")
       ELSE IF NoLength(batch[1][2])
       THEN history' = PushSnapshot /\ aliased' = PushShared /\ Raise("AssertionError")
       ELSE LET merged == Merge(definitions, SetNames(batch))
                newdefs == ConvertFamilies(merged)
                held == StillShared(PushShared, batch)
            IN  /\ history' = WrittenThrough(PushSnapshot, held, newdefs)
                /\ aliased' = held
                /\ definitions' = newdefs
                /\ UNCHANGED <<lattice, positions>>
                /\ IF FirstNoFamily(merged) # 0
                   THEN /\ err' = "KeyError"
                        /\ msg' = "none"
                        /\ reported' = {}
                        /\ UNCHANGED table
                   ELSE IF table.built
                   THEN Rebuild(newdefs, lattice)
                   ELSE /\ err' = "none"
                        /\ msg' = "none"
                        /\ reported' = {}
                        /\ UNCHANGED table

(***************************************************************************)
(* Structural edits                                                        *)
(***************************************************************************)
\* self.lattice + element
AddedLat(element) == lattice \o AsList(element)

\* add_element that rebuilds only when a table exists, as add_def does
add_element_if_table(element) ==
    /\ lastOp' = "add_element"
    /\ ret' = NoReturn
    /\ opened' = FALSE
    /\ history' = PushSnapshot
    /\ aliased' = PushShared
    /\ lattice' = AddedLat(element)
    /\ UNCHANGED <<definitions, positions>>
    /\ IF table.built
       THEN Rebuild(definitions, AddedLat(element))
       ELSE /\ err' = "none"
            /\ msg' = "none"
            /\ reported' = {}
            /\ UNCHANGED table

add_element(element) ==
    /\ lastOp' = "add_element"
    /\ ret' = NoReturn
    /\ opened' = FALSE
    /\ history' = PushSnapshot
    /\ aliased' = PushShared
    /\ lattice' = AddedLat(element)
    /\ UNCHANGED <<definitions, positions>>
    /\ Rebuild(definitions, AddedLat(element))

\* the index of the last occurrence of old, 0-based
ListIndexLast(lat, old) ==
    (CHOOSE i \in 1..Len(lat) :
        /\ lat[i] = old
        /\ \A j \in (i + 1)..Len(lat) : lat[j] # old) - 1

\* [k for k in self.lattice].index(old), 0-based
ListIndex(lat, old) ==
    (CHOOSE i \in 1..Len(lat) :
        /\ lat[i] = old
        /\ \A j \in 1..(i - 1) : lat[j] # old) - 1

\* .index(old) raises ValueError
NotInLattice(old) == \A i \in 1..Len(lattice) : lattice[i] # old

\* self.lattice[:idx] + new + self.lattice[idx + 1 :]
\* kw is [hasIdx |-> BOOLEAN, idx |-> Int]: whether idx was passed, and its value
ReplacedLat(old, new, kw) ==
    LET idx == IF kw.hasIdx THEN kw.idx ELSE ListIndex(lattice, old)
    IN  SliceTo(lattice, idx) \o AsList(new) \o SliceFrom(lattice, idx + 1)

\* replace_element that appends `new` when `old` is not found
replace_element_or_append(old, new, kw) ==
    /\ lastOp' = "replace_element"
    /\ ret' = NoReturn
    /\ opened' = FALSE
    /\ history' = PushSnapshot
    /\ aliased' = PushShared
    /\ UNCHANGED <<definitions, positions>>
    /\ IF ~kw.hasIdx /\ NotInLattice(old)
       THEN /\ lattice' = lattice \o AsList(new)
            /\ Rebuild(definitions, lattice \o AsList(new))
       ELSE /\ lattice' = ReplacedLat(old, new, kw)
            /\ Rebuild(definitions, ReplacedLat(old, new, kw))

replace_element(old, new, kw) ==
    /\ lastOp' = "replace_element"
    /\ ret' = NoReturn
    /\ opened' = FALSE
    /\ history' = PushSnapshot
    /\ aliased' = PushShared
    /\ IF ~kw.hasIdx /\ NotInLattice(old)
       THEN Raise("ValueError")
       ELSE /\ lattice' = ReplacedLat(old, new, kw)
            /\ UNCHANGED <<definitions, positions>>
            /\ Rebuild(definitions, ReplacedLat(old, new, kw))

\* the range taken without its last slot: lattice[end_idx:] follows new
ReplacedListLatEndKept(start_idx, end_idx, new) ==
    SliceTo(lattice, start_idx) \o AsList(new) \o SliceFrom(lattice, end_idx)

\* self.lattice[:start_idx] + new + self.lattice[end_idx + 1 :]
ReplacedListLat(start_idx, end_idx, new) ==
    SliceTo(lattice, start_idx) \o AsList(new) \o SliceFrom(lattice, end_idx + 1)

replace_list(start_idx, end_idx, new) ==
    /\ lastOp' = "replace_list"
    /\ ret' = NoReturn
    /\ opened' = FALSE
    /\ history' = PushSnapshot
    /\ aliased' = PushShared
    /\ lattice' = ReplacedListLat(start_idx, end_idx, new)
    /\ UNCHANGED <<definitions, positions>>
    /\ Rebuild(definitions, ReplacedListLat(start_idx, end_idx, new))

\* self.lattice[:idx_next] + element + self.lattice[idx_next:]
InsertedBeforeLat(element, idx_next) ==
    SliceTo(lattice, idx_next) \o AsList(element) \o SliceFrom(lattice, idx_next)

insert_element_before(element, idx_next) ==
    /\ lastOp' = "insert_element_before"
    /\ ret' = NoReturn
    /\ opened' = FALSE
    /\ history' = PushSnapshot
    /\ aliased' = PushShared
    /\ lattice' = InsertedBeforeLat(element, idx_next)
    /\ UNCHANGED <<definitions, positions>>
    /\ Rebuild(definitions, InsertedBeforeLat(element, idx_next))

\* the insertion made at idx_prev itself, one slot early
InsertedAfterLatAtIdx(element, idx_prev) ==
    SliceTo(lattice, idx_prev) \o AsList(element) \o SliceFrom(lattice, idx_prev)

\* self.lattice[: idx_prev + 1] + element + self.lattice[idx_prev + 1 :]
InsertedAfterLat(element, idx_prev) ==
    SliceTo(lattice, idx_prev + 1) \o AsList(element) \o SliceFrom(lattice, idx_prev + 1)

insert_element_after(element, idx_prev) ==
    /\ lastOp' = "insert_element_after"
    /\ ret' = NoReturn
    /\ opened' = FALSE
    /\ history' = PushSnapshot
    /\ aliased' = PushShared
    /\ lattice' = InsertedAfterLat(element, idx_prev)
    /\ UNCHANGED <<definitions, positions>>
    /\ Rebuild(definitions, InsertedAfterLat(element, idx_prev))

\* self.lattice[:elem_idx] + self.lattice[elem_idx + 1 :]
RemovedLat(elem_idx) ==
    SliceTo(lattice, elem_idx) \o SliceFrom(lattice, elem_idx + 1)

\* remove_element with the snapshot taken after the removal
remove_element_then_snapshot(elem_idx) ==
    /\ lastOp' = "remove_element"
    /\ ret' = NoReturn
    /\ opened' = FALSE
    /\ history' = Append(history, <<definitions, RemovedLat(elem_idx), table>>)
    /\ aliased' = PushShared
    /\ lattice' = RemovedLat(elem_idx)
    /\ UNCHANGED <<definitions, positions>>
    /\ \E r \in {UpdateTable(definitions, RemovedLat(elem_idx), table, positions)} :
          /\ table' = r.table
          /\ err' = r.err
          /\ msg' = r.msg
          /\ reported' = r.reported

remove_element(elem_idx) ==
    /\ lastOp' = "remove_element"
    /\ ret' = NoReturn
    /\ opened' = FALSE
    /\ history' = PushSnapshot
    /\ aliased' = PushShared
    /\ lattice' = RemovedLat(elem_idx)
    /\ UNCHANGED <<definitions, positions>>
    /\ Rebuild(definitions, RemovedLat(elem_idx))

\* self.lattice[:start_idx] + self.lattice[end_idx + 1 :]
RemovedFromToLat(start_idx, end_idx) ==
    SliceTo(lattice, start_idx) \o SliceFrom(lattice, end_idx + 1)

remove_from_to(start_idx, end_idx) ==
    /\ lastOp' = "remove_from_to"
    /\ ret' = NoReturn
    /\ opened' = FALSE
    /\ history' = PushSnapshot
    /\ aliased' = PushShared
    /\ lattice' = RemovedFromToLat(start_idx, end_idx)
    /\ UNCHANGED <<definitions, positions>>
    /\ Rebuild(definitions, RemovedFromToLat(start_idx, end_idx))

\* the index of the first match only
get_idx_first(elem) ==
    IF \E k \in 1..Len(lattice) : lattice[k] = elem
    THEN <<(CHOOSE k \in 1..Len(lattice) :
               /\ lattice[k] = elem
               /\ \A j \in 1..(k - 1) : lattice[j] # elem) - 1>>
    ELSE <<>>

\* get_idx: [i for i, n in enumerate(self.lattice) if n == elem], 0-based
get_idx(elem) ==
    LET F[k \in 0..Len(lattice)] ==
            IF k = 0 THEN <<>>
            ELSE IF lattice[k] = elem THEN Append(F[k - 1], k - 1) ELSE F[k - 1]
    IN  F[Len(lattice)]

\* a call of get_idx: the list is returned, no field is assigned
get_idx_call(elem) ==
    /\ lastOp' = "get_idx"
    /\ ret' = Returned(get_idx(elem))
    /\ opened' = FALSE
    /\ err' = "none"
    /\ msg' = "none"
    /\ reported' = {}
    /\ UNCHANGED <<definitions, lattice, table, positions, history, aliased>>

build_table ==
    /\ lastOp' = "build_table"
    /\ ret' = NoReturn
    /\ opened' = FALSE
    /\ history' = PushSnapshot
    /\ aliased' = PushShared
    /\ UNCHANGED <<definitions, lattice, positions>>
    /\ Rebuild(definitions, lattice)

(***************************************************************************)
(* undo                                                                    *)
(***************************************************************************)
\* undo that rebuilds the table instead of restoring it
undo_recomputing ==
    /\ lastOp' = "undo"
    /\ ret' = NoReturn
    /\ opened' = FALSE
    /\ err' = "none"
    /\ reported' = {}
    /\ UNCHANGED positions
    /\ IF history # <<>>
       THEN LET old == history[Len(history)]
            IN  /\ history' = SubSeq(history, 1, Len(history) - 1)
                /\ aliased' = PopShared
                /\ definitions' = old[1]
                /\ lattice' = old[2]
                /\ table' = UpdateTable(old[1], old[2], old[3], positions).table
                /\ msg' = "none"
       ELSE /\ msg' = "no_previous"
            /\ UNCHANGED <<definitions, lattice, table, history, aliased>>

undo ==
    /\ lastOp' = "undo"
    /\ ret' = NoReturn
    /\ opened' = FALSE
    /\ err' = "none"
    /\ reported' = {}
    /\ UNCHANGED positions
    /\ IF history # <<>>
       THEN LET old == history[Len(history)]
            IN  /\ history' = SubSeq(history, 1, Len(history) - 1)
                /\ aliased' = PopShared
                /\ definitions' = old[1]
                /\ lattice' = old[2]
                /\ table' = old[3]
                /\ msg' = "none"
       ELSE /\ msg' = "no_previous"
            /\ UNCHANGED <<definitions, lattice, table, history, aliased>>

(***************************************************************************)
(* load_from_file                                                          *)
(***************************************************************************)
\* What parse_from_string can do with a text: raise (the external parser's
\* error, a KeyError of its own), or return the tuple of its last line,
\* (lattice_name, definitions, lattice).
ParseOutcomes ==
    { [ok |-> FALSE, ret |-> <<>>],
      [ok |-> TRUE,  ret |-> <<"None", <<>>, <<>>>>],
      [ok |-> TRUE,  ret |-> <<"RING", << <<"D", [family |-> "DRIFT", L |-> 4]>> >>, <<"D", "D">> >>] }

\* self.definitions = defs: the live definitions are the parser's dicts, which
\* none of the n snapshots holds
Unshared(n) == [i \in 1..n |-> {}]

\* load_from_file that takes its snapshot only once the text has been parsed
load_from_file_snapshot_late(exists, ftype, parsed) ==
    /\ lastOp' = "load_from_file"
    /\ ret' = NoReturn
    /\ IF ftype \notin {"lte", "madx"}
       THEN /\ opened' = FALSE
            /\ UNCHANGED <<history, aliased>>
            /\ Raise("AssertionError")
       ELSE /\ opened' = TRUE
            /\ IF ~exists
               THEN UNCHANGED <<history, aliased>> /\ Raise("FileNotFoundError")
               ELSE IF ~parsed.ok
               THEN UNCHANGED <<history, aliased>> /\ Raise("ParseError")
               ELSE /\ history' = PushSnapshot
                    /\ IF Len(parsed.ret) # 4
                       THEN aliased' = PushShared /\ Raise("ValueError")
                       ELSE /\ aliased' = Unshared(Len(history) + 1)
                            /\ definitions' = parsed.ret[3]
                            /\ lattice' = parsed.ret[4]
                            /\ positions' = parsed.ret[2]
                            /\ err' = "none"
                            /\ msg' = "none"
                            /\ reported' = {}
                            /\ UNCHANGED table

\* exists: whether open(filename) finds the file
load_from_file(exists, ftype, parsed) ==
    /\ lastOp' = "load_from_file"
    /\ ret' = NoReturn
    /\ history' = PushSnapshot
    /\ IF ftype \notin {"lte", "madx"}
       THEN /\ opened' = FALSE
            /\ aliased' = PushShared
            /\ Raise("AssertionError")
       ELSE /\ opened' = TRUE
            /\ IF ~exists
               THEN aliased' = PushShared /\ Raise("FileNotFoundError")
               ELSE IF ~parsed.ok
               THEN aliased' = PushShared /\ Raise("ParseError")
               ELSE IF Len(parsed.ret) # 4
               THEN \* name, pos, defs, lat = <a tuple of another length>
                    aliased' = PushShared /\ Raise("ValueError")
               ELSE /\ aliased' = Unshared(Len(history) + 1)
                    /\ definitions' = parsed.ret[3]
                    /\ lattice' = parsed.ret[4]
                    /\ positions' = parsed.ret[2]
                    /\ err' = "none"
                    /\ msg' = "none"
                    /\ reported' = {}
                    /\ UNCHANGED table

(***************************************************************************)
(* The builder after __init__                                              *)
(***************************************************************************)
NoTable == [built |-> FALSE, rows |-> <<>>]

NoPositions == [set |-> FALSE, at |-> <<>>]

Init ==
    /\ definitions = <<>>
    /\ lattice = <<>>
    /\ table = NoTable
    /\ positions = NoPositions
    /\ history = <<>>
    /\ lastOp = "init"
    /\ err = "none"
    /\ msg = "none"
    /\ reported = {}
    /\ opened = FALSE
    /\ ret = NoReturn
    /\ aliased = <<>>
    /\ prior = <<>>
    /\ undone = 0

(***************************************************************************)
(* The calls a client makes.                                               *)
(***************************************************************************)
Scalar(n) == [isList |-> FALSE, val |-> <<n>>]
List(l) == [isList |-> TRUE, val |-> l]

\* the references used in the lattice; each is undefined until a batch defines it
RefNames == {"D", "M"}

ElemArgs ==
    {Scalar(n) : n \in RefNames} \cup {List(<<>>), List(<<"D", "M">>)}

Batches ==
    { \* a library: only the first entry is checked for a length
      << <<"D", [family |-> "DRIF", L |-> 4]>>,
         <<"M", [family |-> "MARK"]>>,
         <<"S", [family |-> "KSEXT", L |-> 2, K1 |-> 6]>>,
         <<"C", [family |-> "RFCA", L |-> 0, name |-> "CAV"]>> >>,
      \* first entry without a length
      << <<"M", [family |-> "WATCH"]>>, <<"D", [family |-> "DRIF", L |-> 2]>> >>,
      \* first entry with L = None
      << <<"M", [family |-> "MONI", L |-> NULL]>> >>,
      \* a name of its own, a later entry with L = None, a tag that is not in the table
      << <<"D", [family |-> "QUADRUPOLE", L |-> 2, K1 |-> 8, name |-> "QX"]>>,
         <<"M", [family |-> "CSBEND", L |-> NULL]>>,
         <<"B", [family |-> "FOO", L |-> 2]>>,
         <<"W", [family |-> "WATCH", L |-> 0]>> >>,
      \* M alone among the references, with a length
      << <<"M", [family |-> "KQUAD", L |-> 2, K1 |-> 4]>>,
         <<"V", [family |-> "EVKICK", L |-> 0]>>,
         <<"H", [family |-> "EHKICK", L |-> 0]>>,
         <<"P", [family |-> "MONI", L |-> 0]>> >>,
      \* an entry without a family, followed by one with a raw tag
      << <<"D", [L |-> 2]>>, <<"P", [family |-> "MONI", L |-> 0]>> >>,
      \* the empty batch
      <<>> }

Indices == 0 .. Len(lattice)

IdxArgs ==
    {[hasIdx |-> FALSE, idx |-> 0]} \cup {[hasIdx |-> TRUE, idx |-> i] : i \in Indices}

Ftypes == {"lte", "madx", "json"}

CanCall == Len(history) < MaxHist

\* the observer records the state a call starts from
Observed == prior' = Append(prior, Snapshot) /\ undone' = 0

\* ... and, at an undo, drops the call that undo takes back
ObservedUndo ==
    /\ prior' = IF prior = <<>> THEN prior ELSE SubSeq(prior, 1, Len(prior) - 1)
    /\ undone' = IF prior = <<>> THEN 0 ELSE undone + 1

Next ==
    \/ CanCall /\ Observed /\ \E b \in Batches : add_def(b)
    \/ CanCall /\ Observed /\ \E e \in ElemArgs :
          Len(AddedLat(e)) <= MaxLat /\ add_element(e)
    \/ CanCall /\ Observed /\ \E o \in RefNames, e \in ElemArgs, kw \in IdxArgs :
          /\ IF ~kw.hasIdx /\ NotInLattice(o) THEN TRUE
                ELSE Len(ReplacedLat(o, e, kw)) <= MaxLat
          /\ replace_element(o, e, kw)
    \/ CanCall /\ Observed /\ \E i \in Indices, j \in Indices, e \in ElemArgs :
          Len(ReplacedListLat(i, j, e)) <= MaxLat /\ replace_list(i, j, e)
    \/ CanCall /\ Observed /\ \E e \in ElemArgs, i \in Indices :
          Len(InsertedBeforeLat(e, i)) <= MaxLat /\ insert_element_before(e, i)
    \/ CanCall /\ Observed /\ \E e \in ElemArgs, i \in Indices :
          Len(InsertedAfterLat(e, i)) <= MaxLat /\ insert_element_after(e, i)
    \/ CanCall /\ Observed /\ \E i \in Indices : remove_element(i)
    \/ CanCall /\ Observed /\ \E i \in Indices, j \in Indices : remove_from_to(i, j)
    \/ CanCall /\ Observed /\ build_table
    \/ /\ CanCall
       /\ prior' = <<>>
       /\ undone' = 0
       /\ \E x \in BOOLEAN, t \in Ftypes, p \in ParseOutcomes : load_from_file(x, t, p)
    \/ undo /\ ObservedUndo

Spec == Init /\ [][Next]_vars

(***************************************************************************)
(* The test of tests/test_core.py (test_fodo): the FODO definitions, then  *)
(* a lattice over their names, in either order, and a manual build.        *)
(***************************************************************************)
FodoNames == {"W1", "QF", "D", "QD"}

\* lengths in units of 0.05 mm, K1 in units of 0.0001
FodoDefs ==
    << <<"QF", [family |-> "KQUAD", L |-> 6840, K1 |-> 4900, N_KICKS |-> 16]>>,
       <<"QD", [family |-> "KQUAD", L |-> 13360, K1 |-> -4999, N_KICKS |-> 16]>>,
       <<"D",  [family |-> "DRIF", L |-> 71610]>>,
       <<"W1", [family |-> "WATCH", L |-> 0, filename |-> "%s-%03ld.w1", mode |-> "coordinates"]>> >>

FodoLists == UNION {[1..n -> FodoNames] : n \in 1..MaxSlots}

NextFodo ==
    \/ definitions = <<>> /\ Observed /\ add_def(FodoDefs)
    \/ lattice = <<>> /\ Observed /\ \E l \in FodoLists : add_element(List(l))
    \/ Len(history) = 2 /\ ~table.built /\ Observed /\ build_table

SpecFodo == Init /\ [][NextFodo]_vars

(***************************************************************************)
(* The query get_idx between the calls that build a lattice.  get_idx      *)
(* assigns no field, so the other specifications leave it out.             *)
(***************************************************************************)
NextQuery ==
    \/ CanCall /\ Observed /\ \E b \in Batches : add_def(b)
    \/ CanCall /\ Observed /\ \E e \in ElemArgs :
          Len(AddedLat(e)) <= MaxLat /\ add_element(e)
    \/ CanCall /\ Observed /\ \E e \in ElemArgs, i \in Indices :
          Len(InsertedBeforeLat(e, i)) <= MaxLat /\ insert_element_before(e, i)
    \/ CanCall /\ Observed /\ \E i \in Indices : remove_element(i)
    \/ undo /\ ObservedUndo
    \/ UNCHANGED <<prior, undone>> /\ \E n \in RefNames : get_idx_call(n)

SpecQuery == Init /\ [][NextQuery]_vars

(***************************************************************************)
(* The builder fed by a parsing collaborator that returns the four values  *)
(* load_from_file unpacks: (name, positions, definitions, lattice), the    *)
(* positions optional.  Definitions come with families already in MADX     *)
(* form and without a name of their own.                                   *)
(***************************************************************************)
ParsedWithPositions ==
    { \* positions given, the marker has no length
      [ok |-> TRUE,
       ret |-> <<"RING", [set |-> TRUE, at |-> <<10, 30>>],
                 << <<"D", [family |-> "DRIFT", L |-> 4]>>,
                    <<"M", [family |-> "MARKER"]>> >>,
                 <<"D", "M">> >>],
      \* positions given, every element has a length
      [ok |-> TRUE,
       ret |-> <<"RING", [set |-> TRUE, at |-> <<10, 30>>],
                 << <<"D", [family |-> "DRIFT", L |-> 4]>>,
                    <<"M", [family |-> "MONITOR", L |-> 0]>> >>,
                 <<"M", "D">> >>],
      \* no positions
      [ok |-> TRUE,
       ret |-> <<"None", [set |-> FALSE, at |-> <<>>],
                 << <<"D", [family |-> "DRIFT", L |-> 4]>> >>,
                 <<"D", "D">> >>] }

NextPositions ==
    \/ /\ CanCall
       /\ prior' = <<>>
       /\ undone' = 0
       /\ \E t \in {"lte", "madx"}, p \in ParsedWithPositions : load_from_file(TRUE, t, p)
    \/ CanCall /\ Observed /\ build_table
    \/ CanCall /\ Observed /\ \E b \in Batches : add_def(b)
    \/ CanCall /\ Observed /\ \E e \in ElemArgs :
          Len(AddedLat(e)) <= MaxLat /\ add_element(e)
    \/ CanCall /\ Observed /\ \E i \in Indices : remove_element(i)
    \/ undo /\ ObservedUndo

SpecPositions == Init /\ [][NextPositions]_vars

(***************************************************************************)
(* Properties                                                              *)
(***************************************************************************)
\* the methods that end with a table rebuild, and those among them that
\* edit the lattice
RebuildOps ==
    {"add_def", "add_element", "replace_element", "replace_list",
     "insert_element_before", "insert_element_after", "remove_element",
     "remove_from_to", "build_table"}

EditOps == RebuildOps \ {"add_def"}

\* the call made last ran the rebuild and it replaced the table
LastRebuilt ==
    /\ lastOp \in RebuildOps
    /\ err = "none"
    /\ msg = "none"
    /\ table.built

\* the length of the definition that slot i refers to, 0 when it has none
SlotLen(i) ==
    LET v == Get(definitions, lattice[i])
    IN  IF NoLength(v) THEN 0 ELSE v["L"]

RECURSIVE SumLen(_)
SumLen(i) == IF i = 0 THEN 0 ELSE SumLen(i - 1) + SlotLen(i)

\* C1: undo exactness. Every undo that follows a call not yet undone puts
\* (definitions, lattice, table) back to what they were just before that call;
\* so N undos after N calls end in the state before the first of the calls.
UndoExactness ==
    [][(lastOp' = "undo" /\ prior # <<>>) => Snapshot' = prior[Len(prior)]]_vars

\* a call that stored definitions, two more calls, then two undos
UndoneTwo ==
    /\ lastOp = "undo"
    /\ undone = 2
    /\ Len(prior) = 1
    /\ prior[1] = <<<<>>, <<>>, NoTable>>
    /\ definitions # <<>>

\* C7: snapshot before change. Each call of add_def or of a structural edit
\* puts exactly one snapshot on top of the history, equal to (definitions,
\* lattice, table) as they were when the call started; the snapshots below
\* are unchanged.
SnapshotBeforeChange ==
    [][lastOp' \in (RebuildOps \ {"build_table"}) =>
          history' = Append(history, <<definitions, lattice, table>>)]_vars

\* a removal that changed the lattice: the top snapshot holds the lattice before it
SnapshotOfRemoval ==
    /\ lastOp = "remove_element"
    /\ err = "none"
    /\ history # <<>>
    /\ history[Len(history)][2] # lattice
    /\ history[Len(history)][3].built

\* C8: the undo step. With a history, undo removes its top snapshot and sets
\* (definitions, lattice, table) to it, the table as captured; without one it
\* changes none of definitions, lattice, table, history. It raises nothing
\* and never lengthens the history.
UndoStep ==
    [][lastOp' = "undo" =>
          /\ err' = "none"
          /\ Len(history') <= Len(history)
          /\ IF history # <<>>
             THEN /\ history' = SubSeq(history, 1, Len(history) - 1)
                  /\ <<definitions', lattice', table'>> = history[Len(history)]
             ELSE UNCHANGED <<definitions, lattice, table, history>>]_vars

\* an undo that restored a table a rebuild would not give: every reference
\* is defined, and the table is the absent one that was captured
UndoRestoredStaleTable ==
    /\ lastOp = "undo"
    /\ msg = "none"
    /\ undone = 1
    /\ lattice # <<>>
    /\ AllDefined(definitions, lattice)
    /\ ~table.built
    /\ UpdateTable(definitions, lattice, table, positions).table.built

\* the names of the lattice that are no key of the definitions
UndefinedNames(defs, lat) ==
    {lat[i] : i \in 1..Len(lat)} \ {defs[j][1] : j \in 1..Len(defs)}

\* C2 as stated: after any mutating call whose resulting lattice holds an
\* undefined name, the table is the one before the call, no error is raised,
\* and the set reported is the names of the lattice minus the keys of the
\* definitions.
RebuildGatingEveryCall ==
    [][(lastOp' \in RebuildOps /\ UndefinedNames(definitions', lattice') # {}) =>
          /\ table' = table
          /\ err' = "none"
          /\ msg' = "not_updated"
          /\ reported' = UndefinedNames(definitions', lattice')]_vars

\* C2, amended: after any mutating call whose resulting lattice holds an
\* undefined name, the table is the one before the call. If the call ran the
\* rebuild (an edit or build_table that did not raise first, or an add_def
\* that raised nothing while a table existed), no error is raised and the set
\* reported is the names of the lattice minus the keys of the definitions;
\* otherwise (add_def with no table yet, or a call that raised before the
\* rebuild) nothing is reported.
RebuildGating ==
    [][(lastOp' \in RebuildOps /\ UndefinedNames(definitions', lattice') # {}) =>
          /\ table' = table
          /\ IF err' = "none" /\ (lastOp' # "add_def" \/ table.built)
             THEN /\ msg' = "not_updated"
                  /\ reported' = UndefinedNames(definitions', lattice')
             ELSE /\ msg' = "none"
                  /\ reported' = {}]_vars

\* an edit that left a built table as it was, one defined and one undefined
\* name in the lattice
GatedWithTable ==
    /\ lastOp \in EditOps
    /\ msg = "not_updated"
    /\ table.built
    /\ reported # {}
    /\ reported # {lattice[i] : i \in 1..Len(lattice)}
    /\ Len(table.rows) < Len(lattice)

NullLengthCoercion ==
    (/\ lastOp \in EditOps
     /\ err # "ValueError"
     /\ lattice # <<>>
     /\ AllDefined(definitions, lattice)
     /\ \E i \in 1..Len(lattice) : NoLength(Get(definitions, lattice[i])))
    => /\ err = "none"
       /\ table.built
       /\ Len(table.rows) = Len(lattice)
       /\ \A i \in 1..Len(lattice) :
             /\ NoLength(Get(definitions, lattice[i])) => table.rows[i]["L"] = 0
             /\ 2 * table.rows[i]["at"] = 2 * SumLen(i) - SlotLen(i)

\* the conversion table as the documentation gives it
FamilyTable ==
    { <<"KQUAD", "QUADRUPOLE">>, <<"KSEXT", "SEXTUPOLE">>, <<"DRIF", "DRIFT">>,
      <<"RFCA", "RFCAVITY">>, <<"CSBEND", "SBEND">>, <<"MONI", "MONITOR">>,
      <<"WATCH", "MARKER">>, <<"MARK", "MARKER">>, <<"EVKICK", "VKICKER">>,
      <<"EHKICK", "HKICKER">> }

Normalized(f) ==
    IF \E p \in FamilyTable : p[1] = f
    THEN (CHOOSE p \in FamilyTable : p[1] = f)[2]
    ELSE f

\* C5: family normalization. When add_def(b) returns, every stored
\* definition has the family the table gives for its raw family (the one in
\* b for the names of b, the stored one for the others), the raw family
\* itself for a tag the table does not hold; a family stored in normal form
\* by an earlier call is left as it is.
FamilyNormalization ==
    [][\A b \in Batches :
          (add_def(b) /\ err' = "none") =>
             \A i \in 1..Len(definitions') :
                LET k   == definitions'[i][1]
                    new == definitions'[i][2]["family"]
                IN  /\ k \in Keys(b) => new = Normalized(Get(b, k)["family"])
                    /\ k \notin Keys(b) =>
                          /\ new = Normalized(Get(definitions, k)["family"])
                          /\ Get(definitions, k)["family"] \in {p[2] : p \in FamilyTable}
                                => new = Get(definitions, k)["family"]]_vars

\* a second add_def has returned: the store holds families it converted in
\* this call and in the call before, and a tag it passed through
FamiliesStored ==
    /\ lastOp = "add_def"
    /\ err = "none"
    /\ Len(history) >= 2
    /\ {"D", "M", "S", "B", "W"} \subseteq Keys(definitions)
    /\ Get(definitions, "S")["family"] = "SEXTUPOLE"
    /\ Get(definitions, "M")["family"] = "SBEND"
    /\ Get(definitions, "W")["family"] = "MARKER"
    /\ Get(definitions, "B")["family"] = "FOO"

AddDefWithoutLengthChangesNothing ==
    [][\A b \in Batches :
          (b # <<>> /\ NoLength(b[1][2]) /\ add_def(b)) =>
             /\ err' # "none"
             /\ UNCHANGED <<definitions, lattice, table, history>>]_vars

\* C10: load_from_file with a dialect other than "lte" and "madx" fails
\* before any side effect: no file is opened, and definitions, lattice,
\* positions, table and history are unchanged.
BadDialectChangesNothing ==
    [][\A x \in BOOLEAN, t \in Ftypes \ {"lte", "madx"}, p \in ParseOutcomes :
          load_from_file(x, t, p) =>
             /\ err' # "none"
             /\ ~opened'
             /\ UNCHANGED <<definitions, lattice, positions, table, history>>]_vars

\* C11: replace_element(old, new) without idx, when old occurs nowhere in
\* the lattice, raises the error of the lookup (ValueError of list.index) and
\* leaves definitions, lattice and table as they were before the call.
ReplaceAbsentRaises ==
    [][\A o \in RefNames, e \in ElemArgs :
          (/\ \A i \in 1..Len(lattice) : lattice[i] # o
           /\ replace_element(o, e, [hasIdx |-> FALSE, idx |-> 0])) =>
             /\ err' = "ValueError"
             /\ UNCHANGED <<definitions, lattice, table>>]_vars

\* the call raised on a lattice that holds the other name, with a table
\* built: the three are what the snapshot on top of the history holds
ReplaceAbsentRaised ==
    /\ lastOp = "replace_element"
    /\ err = "ValueError"
    /\ lattice # <<>>
    /\ table.built
    /\ history # <<>>
    /\ history[Len(history)] = <<definitions, lattice, table>>

\* C12: the definition invariant. In every state reached by add_def (also by
\* calls that raise), structural edits, build_table and undo, every entry of
\* the definitions has both a name and a family.
DefinitionInvariant ==
    \A i \in 1..Len(definitions) :
        {"name", "family"} \subseteq DOMAIN definitions[i][2]

\* C13: replace_element replaces exactly one slot. With idx = i given
\* (0 <= i < n) the lattice becomes lattice[0..i) ++ new ++ lattice(i..n)
\* whatever old is; without idx, i is the smallest index whose reference is
\* old, so later occurrences of old stay. new is one name or a list, and the
\* other slots keep their order. (Every call replace_element(o, e, kw) that
\* the step can be has this result.)
ReplaceOneSlot ==
    [][lastOp' = "replace_element" =>
       \A o \in RefNames, e \in ElemArgs, kw \in IdxArgs :
          LET n == Len(lattice)
              i == IF kw.hasIdx THEN kw.idx
                   ELSE CHOOSE k \in 0..(n - 1) :
                           /\ lattice[k + 1] = o
                           /\ \A j \in 0..(k - 1) : lattice[j + 1] # o
          IN  (IF kw.hasIdx THEN kw.idx < n ELSE \E k \in 1..n : lattice[k] = o) =>
                 \/ /\ lattice' = SubSeq(lattice, 1, i) \o e.val \o SubSeq(lattice, i + 2, n)
                    /\ Len(lattice') = n - 1 + Len(e.val)
                 \/ ~replace_element(o, e, kw)]_vars

\* the first of two slots that hold the same name was replaced, the second kept
ReplacedFirstOfTwo ==
    /\ lastOp = "replace_element"
    /\ err # "ValueError"
    /\ history # <<>>
    /\ history[Len(history)][2] = <<"D", "D">>
    /\ lattice = <<"M", "D">>

\* C14: replace_list(start, end, new) with 0 <= start <= end < n replaces the
\* slots start..end, both ends included: the lattice becomes
\* lattice[0..start) ++ new ++ lattice(end..n), of length
\* n - (end - start + 1) + |new|, a bare name counting as a list of one.
ReplaceRangeInclusive ==
    [][\A a \in Indices, b \in Indices, e \in ElemArgs :
          LET n == Len(lattice)
          IN  (a <= b /\ b < n /\ replace_list(a, b, e)) =>
                 /\ lattice' = SubSeq(lattice, 1, a) \o e.val \o SubSeq(lattice, b + 2, n)
                 /\ Len(lattice') = n - (b - a + 1) + Len(e.val)
                 /\ ~e.isList => Len(lattice') = n - (b - a)]_vars

\* two slots were replaced by one bare name
ReplacedTwoByOne ==
    /\ lastOp = "replace_list"
    /\ history # <<>>
    /\ history[Len(history)][2] = <<"D", "D">>
    /\ lattice = <<"M">>

RemoveRangeRebuilds ==
    [][\A a \in Indices, b \in Indices :
          LET n == Len(lattice)
          IN  (a <= b /\ b < n /\ remove_from_to(a, b)) =>
                 /\ lattice' = SubSeq(lattice, 1, a) \o SubSeq(lattice, b + 2, n)
                 /\ AllDefined(definitions, lattice') =>
                       /\ err' = "none"
                       /\ table'.built
                       /\ Len(table'.rows) = n - (b - a + 1)
                       /\ \A i \in 1..Len(table'.rows) :
                             table'.rows[i]["name"] = lattice'[i]]_vars

RowsOfState(defs, lat, tab) ==
    /\ tab.built
    /\ Len(tab.rows) = Len(lat)
    /\ \A i \in 1..Len(lat) :
          LET v == defs[CHOOSE j \in 1..Len(defs) : defs[j][1] = lat[i]][2]
          IN  /\ tab.rows[i]["name"] = lat[i]
              /\ \A a \in (DOMAIN v) \ {"name", "L"} : tab.rows[i][a] = v[a]
              /\ tab.rows[i]["L"] = IF "L" \in DOMAIN v /\ v["L"] # NULL THEN v["L"] ELSE 0

\* the call just made was add_def or a structural edit, it raised nothing,
\* and every reference of the lattice it left is a key of the definitions
CompletedFullyDefined ==
    /\ lastOp' \in RebuildOps \ {"build_table"}
    /\ err' = "none"
    /\ \A i \in 1..Len(lattice') :
          \E j \in 1..Len(definitions') : definitions'[j][1] = lattice'[i]

\* C18 as stated (on a lattice that is not empty): after every add_def or
\* structural edit that completes, if every reference in the lattice is a
\* key of the definitions, the table has been rebuilt from the current
\* state, one row per slot, row i named lattice[i] with the current
\* attributes of that definition, also when no table existed before.
RebuildWheneverPossible ==
    [][(CompletedFullyDefined /\ lattice' # <<>>) =>
          RowsOfState(definitions', lattice', table')]_vars

\* C18, amended: the same after every structural edit that completes, also
\* when no table existed before, and after every add_def that completes
\* while a table exists; an add_def on a builder without a table builds none.
RebuildAfterEditOrWithTable ==
    [][CompletedFullyDefined =>
          IF lastOp' = "add_def" /\ ~table.built
          THEN table' = table
          ELSE RowsOfState(definitions', lattice', table')]_vars

\* an edit built the first table of the builder
RebuiltFromNothing ==
    /\ lastOp \in EditOps \ {"build_table"}
    /\ err = "none"
    /\ msg = "none"
    /\ table.built
    /\ Len(table.rows) = 2
    /\ history # <<>>
    /\ ~history[Len(history)][3].built

LoadReplacesState ==
    [][\A t \in {"lte", "madx"}, p \in ParseOutcomes :
          (p.ok /\ load_from_file(TRUE, t, p)) =>
             /\ err' = "none"
             /\ history' = Append(history, <<definitions, lattice, table>>)
             /\ definitions' = p.ret[Len(p.ret) - 1]
             /\ lattice' = p.ret[Len(p.ret)]
             /\ Len(p.ret) = 4 => positions' = p.ret[2]
             /\ table' = table]_vars

\* C21: when the parsing collaborator fails on a malformed text,
\* load_from_file passes the failure on to its caller; the history then holds
\* exactly one snapshot more than before, the state the call started from
\* (it is not taken back), and definitions, lattice, positions and table
\* are unchanged.
ParseFailureKeepsSnapshot ==
    [][\A t \in {"lte", "madx"}, p \in ParseOutcomes :
          (~p.ok /\ load_from_file(TRUE, t, p)) =>
             /\ err' = "ParseError"
             /\ opened'
             /\ Len(history') = Len(history) + 1
             /\ history' = Append(history, <<definitions, lattice, table>>)
             /\ UNCHANGED <<definitions, lattice, positions, table>>]_vars

\* the parse failed on a builder that holds definitions, a lattice and a
\* table: the three are on top of the history and still in place
ParseFailedOnBuiltTable ==
    /\ lastOp = "load_from_file"
    /\ err = "ParseError"
    /\ definitions # <<>>
    /\ lattice # <<>>
    /\ table.built
    /\ Len(history) >= 3
    /\ history[Len(history)] = <<definitions, lattice, table>>

\* the entry v gives no length: it has no "L", or "L" is None
LacksLength(v) == "L" \notin DOMAIN v \/ v["L"] = NULL

\* C22 as stated: length at the first definition. The add_def call that
\* introduces a name is rejected unless the entry of that name gives a
\* length, whatever the entry's place in the batch; and a call in which only
\* names already stored lack a length is not rejected for it.
LengthAtFirstDefinition ==
    [][\A b \in Batches :
          (b # <<>> /\ add_def(b)) =>
             LET introduced == {i \in 1..Len(b) :
                                  /\ LacksLength(b[i][2])
                                  /\ \A j \in 1..Len(definitions) : definitions[j][1] # b[i][1]}
             IN  /\ introduced # {} =>
                       (err' = "AssertionError" /\ definitions' = definitions)
                 /\ introduced = {} => err' # "AssertionError"]_vars

\* C22, amended: add_def rejects a batch exactly when the first entry of the
\* batch gives no length, whether or not the name of that entry is already
\* stored; the entries at the other places are not checked, so a name can
\* be introduced without a length there.
LengthOfFirstEntry ==
    [][\A b \in Batches :
          (b # <<>> /\ add_def(b)) =>
             IF LacksLength(b[1][2])
             THEN err' = "AssertionError" /\ definitions' = definitions
             ELSE /\ err' # "AssertionError"
                  /\ \A i \in 1..Len(b) :
                        \E j \in 1..Len(definitions') : definitions'[j][1] = b[i][1]]_vars

\* a call that returned has introduced a name whose entry, not the first of
\* its batch, gives no length
IntroducedWithoutLength ==
    /\ lastOp = "add_def"
    /\ err = "none"
    /\ history # <<>>
    /\ \E i \in 1..Len(definitions) :
          /\ i > 1
          /\ "L" \notin DOMAIN definitions[i][2]
          /\ \A j \in 1..Len(history[Len(history)][1]) :
                history[Len(history)][1][j][1] # definitions[i][1]

\* the raw tags: the keys of the conversion table
RawTags == {p[1] : p \in FamilyTable}

\* C24: in every state reached by add_def (also by calls that raise part
\* way), structural edits, build_table and undo, no stored definition has a
\* family that is one of the raw tags KQUAD, KSEXT, DRIF, RFCA, CSBEND, MONI,
\* WATCH, EVKICK, EHKICK, MARK.
NoRawFamilyStored ==
    \A i \in 1..Len(definitions) :
        "family" \in DOMAIN definitions[i][2] =>
            definitions[i][2]["family"] \notin RawTags

\* C25: a call that rebuilds over an empty lattice (remove_element(0) on a
\* lattice of one slot, remove_from_to that takes every slot away,
\* build_table on a builder whose lattice is empty) raises nothing and
\* leaves a table with no rows.
EmptyLatticeRebuilds ==
    [][(\/ lastOp' = "remove_element" /\ Len(lattice) = 1 /\ lattice' = <<>>
        \/ lastOp' = "remove_from_to" /\ lattice # <<>> /\ lattice' = <<>>
        \/ lastOp' = "build_table" /\ lattice = <<>>)
       => /\ err' = "none"
          /\ table'.built
          /\ table'.rows = <<>>]_vars

(***************************************************************************)
(* C23: snapshot isolation.  A call other than undo leaves every snapshot  *)
(* already on the history as it was and puts on top the state the call     *)
(* started from; undo takes off the top snapshot only; and after any call  *)
(* no snapshot on the history holds an attribute dict of the live          *)
(* definitions, so neither a later call nor the state undo restored can    *)
(* write into a snapshot.                                                  *)
(***************************************************************************)
SnapshotIsolation ==
    [][/\ (lastOp' # "undo" /\ Len(history') > Len(history)) =>
             /\ SubSeq(history', 1, Len(history)) = history
             /\ history'[Len(history')] = <<definitions, lattice, table>>
       /\ (lastOp' = "undo" /\ history # <<>>) =>
             /\ history' = SubSeq(history, 1, Len(history) - 1)
             /\ <<definitions', lattice', table'>> = history[Len(history)]
       /\ Len(aliased') = Len(history')
       /\ \A i \in 1..Len(aliased') : aliased'[i] = {}]_vars

\* add_def converted the raw tag of P in the live definitions; the snapshot
\* taken when that call started still holds the raw tag
SnapshotKeepsRawTag ==
    /\ lastOp = "add_def"
    /\ err = "none"
    /\ history # <<>>
    /\ "P" \in Keys(definitions)
    /\ Get(definitions, "P")["family"] = "MONITOR"
    /\ "P" \in Keys(history[Len(history)][1])
    /\ Get(history[Len(history)][1], "P")["family"] = "MONI"
====
